---------------------------- MODULE Spec2Model ----------------------------
(***************************************************************************)
(* Model of hackernews-notion-bridge (src/main.py): the listing loop of    *)
(* download_stories, the concurrent tree download of download_story and    *)
(* download_comment (asyncio.gather), the sink replace of update_notion,   *)
(* the run modes of main, and the conversion of a reply's markup into      *)
(* rich text runs (richtexts_from_html, block_from_comment).               *)
(*                                                                         *)
(* Spec is the run of main; FairSpec is that run for one story with        *)
(* replies, with fair scheduling; HtmlSpec parses a markup and builds the  *)
(* block of its reply.                                                     *)
(*                                                                         *)
(* The Hacker News API and the Notion API are the environment: the outcome *)
(* of every request is chosen when its response arrives.  The event loop   *)
(* is single threaded: a comment task takes a step only while the main     *)
(* coroutine is suspended in an await.                                     *)
(***************************************************************************)
EXTENDS Integers, Sequences, FiniteSets, TLC

\* ------------------------------------------------------------------ bounds
MaxNumber == 2      \* largest requested count (--number)
MaxPages  == 2      \* largest number of entries the sink's query returns
MaxListing == 2     \* longest listing the source returns

\* ------------------------------------------------------- the source's data
\* Identifiers of root items the listing may rank.
StoryIds == {1, 2, 3}
\* Identifiers of reply items.
CommentIds == {11, 12, 13, 14}
\* data["kids"] of the record of item id (<<>>: the record has no "kids").
KidsOf(id) ==
    CASE id = 1  -> <<11, 12>>
      [] id = 11 -> <<13, 14>>
      [] OTHER   -> <<>>

Range(s) == {s[i] : i \in 1..Len(s)}

\* The item whose record lists id among its kids (0: none).
ParentOf(id) ==
    CASE id \in {11, 12} -> 1
      [] id \in {13, 14} -> 11
      [] OTHER -> 0

\* What a GET of an item can yield, by the branch of the code it takes.
\*   ok       200 and a complete record
\*   emptyurl 200 and a complete root record whose "url" is ""
\*   nourl    200 and a root record without "url"
\*   absent   200 and the JSON value null, or a record with "deleted": true
\*   null     200 and the JSON value null, for a root
\*   nofield  200 and a record lacking a field the constructor reads
\*   failed   a status code other than 200, or httpx.TimeoutException
\*   neterr   another httpx transport error (connect, read, protocol)
CommentOutcomes == {"ok", "absent", "nofield", "failed", "neterr"}
StoryOutcomes == {"ok", "emptyurl", "nourl", "null", "nofield", "failed", "neterr"}
ListingOutcomes == {"ok", "failed", "neterr"}
QueryOutcomes == {"ok", "error"}
ArchiveOutcomes == {"ok", "error"}
CreateOutcomes == {"ok", "APIResponseError", "timeout"}

\* The listings the source may return: ranked, without repetition.
Listings ==
    {s \in UNION {[1..k -> StoryIds] : k \in 0..MaxListing} :
        \A i, j \in 1..Len(s) : i # j => s[i] # s[j]}

\* --------------------------------------------------------------- the state
VARIABLES
    number,         \* args.number
    listing,        \* the source's ranked listing
    resp,           \* resp[id]: what the GET of item id yielded ("none": no response yet)
    pc,             \* where main is
    exc,            \* the exception that escaped main
    top_story_ids,  \* download_stories: top_story_ids
    stories,        \* download_stories: stories
    index,          \* download_stories: index
    cur,            \* download_stories: story_id
    spc,            \* where download_story(cur) is
    task,           \* task[c]: where the task download_comment(c) is
    res,            \* res[c]: what the task download_comment(c) returned or raised
    gexc,           \* gexc[c]: the exception asyncio.gather set for download_comment(c)
    order,          \* order[p]: the kids of p in the order their tasks finished
    attempted,      \* the roots requested so far, in request order
    kids,           \* update_notion: kids
    archived,       \* the stored entries archived so far
    ai,             \* update_notion: iterations of the archive loop done
    n,              \* update_notion: n
    created,        \* the pages.create calls made, in call order
    html,           \* comment.text: the markup of a reply, as parsed so far
    open,           \* the parser's open tags: a path of last kids of html
    block           \* what block_from_comment(comment) built ("none": not called)

srcVars == <<number, listing, resp>>
dlVars == <<top_story_ids, stories, index, cur, spc, attempted>>
taskVars == <<task, res, gexc, order>>
sinkVars == <<kids, archived, ai, n, created>>
htmlVars == <<html, open, block>>
vars == <<srcVars, pc, exc, dlVars, taskVars, sinkVars, htmlVars>>

\* ----------------------------------------------------------------- markup
\* A node of the tree BeautifulSoup(data["text"], "html.parser") builds
\* (line 103): a NavigableString of len characters, or a Tag with its
\* contents; href tells whether the tag has the attribute "href" (in the
\* inputs below: every tag "a" but the one that lacks it).
TextNode(len) == [name |-> "#text", len |-> len, href |-> FALSE, contents |-> <<>>]
Tag(name, href, contents) == [name |-> name, len |-> 0, href |-> href, contents |-> contents]
Document(contents) == Tag("[document]", FALSE, contents)
IsText(node) == node.name = "#text"

NoBlock == [state |-> "none", raised |-> "none", text |-> <<>>]

NoRes == [kind |-> "none", id |-> 0, comments |-> <<>>]
NoExc == [type |-> "none", from |-> "none"]

\* An exception object, as a value a list can hold.
ExcValue(kind, id) == [kind |-> kind, id |-> id, comments |-> <<>>]
IsExc(r) == r.kind \in {"DownloadExcpetion", "KeyError", "TransportError"}

Init ==
    /\ number \in 0..MaxNumber
    /\ listing \in Listings
    /\ resp = [id \in StoryIds \cup CommentIds |-> "none"]
    /\ pc = "fetch_listing"
    /\ exc = NoExc
    /\ top_story_ids = <<>>
    /\ stories = <<>>
    /\ index = 0
    /\ cur = 0
    /\ spc = "idle"
    /\ task = [c \in CommentIds |-> "none"]
    /\ res = [c \in CommentIds |-> NoRes]
    /\ gexc = [c \in CommentIds |-> NoRes]
    /\ order = [p \in StoryIds \cup CommentIds |-> <<>>]
    /\ attempted = <<>>
    /\ kids = <<>>
    /\ archived = {}
    /\ ai = 0
    /\ n = 0
    /\ created = <<>>
    /\ html = Document(<<>>)
    /\ open = 0
    /\ block = NoBlock

\* ------------------------------------------------------------ raise helper
\* An exception that is swallowed: main goes on to update_notion.
EscapeSwallowed(type, from) ==
    /\ pc' = "returned"
    /\ exc' = [type |-> type, from |-> from]

\* An exception no handler catches: it leaves main.
Escape(type, from) ==
    /\ pc' = "raised"
    /\ exc' = [type |-> type, from |-> from]


\* ------------------------------------------------------- download_stories
\* download_stories, lines 172-177: the listing request.  The request is sent
\* without a try; a status other than 200 reaches line 175, whose message
\* reads "r.status", an attribute the response does not have.
FetchListing(o) ==
    /\ pc = "fetch_listing"
    /\ IF o = "ok"
       THEN /\ top_story_ids' = listing
            /\ pc' = "loop"
            /\ UNCHANGED exc
       ELSE /\ Escape(IF o = "failed" THEN "AttributeError" ELSE "TransportError", "listing")
            /\ UNCHANGED top_story_ids
    /\ UNCHANGED <<srcVars, stories, index, cur, spc, attempted, taskVars, sinkVars, htmlVars>>

\* A collection that puts the newest story first.
PrependStory(ss, s) == <<s>> \o ss

\* stories.append(story), line 197.
AppendStory(ss, s) == Append(ss, s)

\* download_stories, lines 185-193: one more turn of the while loop, up to the
\* request download_story sends.  top_story_ids[index] raises IndexError
\* past the end of the list.
LoopNext ==
    /\ pc = "loop"
    /\ Len(stories) < number
    /\ IF index + 1 > Len(top_story_ids)
       THEN /\ Escape("IndexError", "loop")
            /\ UNCHANGED <<index, cur, spc, attempted>>
       ELSE /\ cur' = top_story_ids[index + 1]
            /\ index' = index + 1
            /\ spc' = "get"
            /\ attempted' = Append(attempted, top_story_ids[index + 1])
            /\ pc' = "await_story"
            /\ UNCHANGED exc
    /\ UNCHANGED <<srcVars, top_story_ids, stories, taskVars, sinkVars, htmlVars>>

\* download_stories, lines 185 and 199: the loop ends and the stories are
\* returned to main (line 468).
LoopExit ==
    /\ pc = "loop"
    /\ ~(Len(stories) < number)
    /\ pc' = "returned"
    /\ UNCHANGED <<srcVars, exc, dlVars, taskVars, sinkVars, htmlVars>>

\* ----------------------------------------------------------- download_story
\* The Story of lines 148-156 (the fields the model follows).
Story(id, o, comments) ==
    [kind |-> "Story", id |-> id, comments |-> comments,
     url |-> IF o = "emptyurl" THEN "" ELSE "http"]

\* Lines 148-156 and 193-197: the Story is built (KeyError when the record
\* lacks a field) and download_stories appends it.
FinishStory(o, comments) ==
    /\ spc' = "idle"
    /\ IF o = "nofield"
       THEN /\ Escape("KeyError", "root")
            /\ UNCHANGED stories
       ELSE /\ stories' = AppendStory(stories, Story(cur, o, comments))
            /\ pc' = "loop"
            /\ UNCHANGED exc

\* download_story, lines 111-138: the response of the root request.  Only
\* DownloadExcpetion is caught by download_stories (line 194).
StoryResponse(o) ==
    /\ pc = "await_story"
    /\ spc = "get"
    /\ resp' = [resp EXCEPT ![cur] = o]
    /\ CASE o \in {"failed", "nourl"} ->
              /\ pc' = "loop"
              /\ spc' = "idle"
              /\ UNCHANGED <<exc, stories, task>>
         [] o = "neterr" ->
              /\ Escape("TransportError", "root")
              /\ spc' = "idle"
              /\ UNCHANGED <<stories, task>>
         [] o = "null" ->
              /\ Escape("TypeError", "root")
              /\ spc' = "idle"
              /\ UNCHANGED <<stories, task>>
         [] OTHER ->
              IF KidsOf(cur) # <<>>
              THEN /\ task' = [c \in CommentIds |->
                                  IF c \in Range(KidsOf(cur)) THEN "get" ELSE task[c]]
                   /\ spc' = "gather"
                   /\ UNCHANGED <<pc, exc, stories>>
              ELSE /\ FinishStory(o, <<>>)
                   /\ UNCHANGED task
    /\ UNCHANGED <<number, listing, top_story_ids, index, cur, attempted,
                   res, gexc, order, sinkVars, htmlVars>>

\* --------------------------------------------------------- download_comment
\* main is suspended in an await (of download_story, line 193, or of
\* asyncio.sleep, line 475): the event loop runs the tasks.
Suspended == pc \in {"await_story", "sleeping"}

\* Lines 71-86: the exception the response makes download_comment raise
\* ("none": it goes on).  httpx errors other than a timeout are not caught.
FetchExc(o) ==
    CASE o \in {"failed", "absent"} -> "DownloadExcpetion"
      [] o = "neterr" -> "TransportError"
      [] OTHER -> "none"

\* Lines 99-105: the Comment, or the KeyError of a missing field.
MakeComment(id, o, comments) ==
    IF o = "nofield"
    THEN ExcValue("KeyError", id)
    ELSE [kind |-> "Comment", id |-> id, comments |-> comments]

\* A gather that hands the results over in the order the tasks finished.
GatherResultsAsCompleted(p) == [i \in 1..Len(order[p]) |-> res[order[p][i]]]

\* asyncio.gather: the results of the kids' tasks, in the order of the
\* awaitables passed (lines 91-93 and 135-138).
GatherResults(p) == [i \in 1..Len(KidsOf(p)) |-> res[KidsOf(p)[i]]]

\* The gather that awaits the task of c is still pending.
Awaited(c) ==
    IF ParentOf(c) \in CommentIds
    THEN task[ParentOf(c)] = "gather"
    ELSE spc = "gather" /\ cur = ParentOf(c)

\* The task download_comment(c) ends with r.  A pending gather without
\* return_exceptions (the parent is a comment) takes the first exception of
\* a kid; a gather that is over ignores the task.
Complete(c, r) ==
    /\ res' = [res EXCEPT ![c] = r]
    /\ gexc' = IF ParentOf(c) \in CommentIds /\ Awaited(c) /\ IsExc(r)
                  /\ gexc[ParentOf(c)] = NoRes
               THEN [gexc EXCEPT ![ParentOf(c)] = r]
               ELSE gexc
    /\ order' = IF Awaited(c)
                THEN [order EXCEPT ![ParentOf(c)] = Append(@, c)]
                ELSE order

\* download_comment, lines 71-93 (and 99-105 without kids): the response of
\* the request of comment c.
CommentResponse(c, o) ==
    /\ Suspended
    /\ task[c] = "get"
    /\ resp' = [resp EXCEPT ![c] = o]
    /\ IF FetchExc(o) # "none"
       THEN /\ Complete(c, ExcValue(FetchExc(o), c))
            /\ task' = [task EXCEPT ![c] = "done"]
       ELSE IF KidsOf(c) # <<>>
       THEN /\ task' = [d \in CommentIds |->
                           IF d = c THEN "gather"
                           ELSE IF d \in Range(KidsOf(c)) THEN "get" ELSE task[d]]
            /\ UNCHANGED <<res, gexc, order>>
       ELSE /\ Complete(c, MakeComment(c, o, <<>>))
            /\ task' = [task EXCEPT ![c] = "done"]
    /\ UNCHANGED <<number, listing, pc, exc, dlVars, sinkVars, htmlVars>>

\* "c is not None", line 94.
NotNone(r) == r.kind # "None"

\* A gather that resolves only when every kid returned without raising.
GatherOverWhenNoKidRaised(c) ==
    /\ gexc[c] = NoRes
    /\ \A k \in Range(KidsOf(c)) : task[k] = "done"

\* asyncio.gather without return_exceptions (lines 91-93) resolves with the
\* first exception of a kid, or when every kid is done.
GatherOver(c) ==
    \/ gexc[c] # NoRes
    \/ \A k \in Range(KidsOf(c)) : task[k] = "done"

\* download_comment, lines 91-105: the await of gather returns.  It raises
\* the first exception of a kid as soon as there is one, and otherwise
\* returns when every kid is done.
CommentGather(c) ==
    /\ Suspended
    /\ task[c] = "gather"
    /\ GatherOver(c)
    /\ IF gexc[c] # NoRes
       THEN Complete(c, gexc[c])
       ELSE Complete(c, MakeComment(c, resp[c], SelectSeq(GatherResults(c), NotNone)))
    /\ task' = [task EXCEPT ![c] = "done"]
    /\ UNCHANGED <<srcVars, pc, exc, dlVars, sinkVars, htmlVars>>

\* "isinstance(comment, DownloadExcpetion)", line 140, negated.
NotDownloadExcpetion(r) == r.kind # "DownloadExcpetion"

\* download_story, lines 135-156: gather with return_exceptions=True returns
\* once every kid's task is done; the DownloadExcpetion results are skipped.
StoryGather ==
    /\ pc = "await_story"
    /\ spc = "gather"
    /\ \A k \in Range(KidsOf(cur)) : task[k] = "done"
    /\ FinishStory(resp[cur], SelectSeq(GatherResults(cur), NotDownloadExcpetion))
    /\ UNCHANGED <<srcVars, top_story_ids, index, cur, attempted, taskVars, sinkVars, htmlVars>>

\* ------------------------------------------------------------ update_notion
\* count_comments, lines 159-166: the count, or the AttributeError that
\* reading ".comments" of an exception object raises.
Returned(v) == [exc |-> "none", value |-> v]
Raised(type) == [exc |-> type, value |-> 0]
RECURSIVE SumCounts(_,_)
RECURSIVE count_comments(_)
SumCounts(cs, i) ==
    IF i > Len(cs) THEN Returned(0)
    ELSE LET a == count_comments(cs[i])
             b == SumCounts(cs, i + 1)
         IN  IF a.exc # "none" THEN a
             ELSE IF b.exc # "none" THEN b
             ELSE Returned(a.value + b.value)
count_comments(item) ==
    IF IsExc(item) THEN Raised("AttributeError")
    ELSE LET s == SumCounts(item.comments, 1)
         IN  IF s.exc # "none" THEN s
             ELSE Returned(s.value + Len(item.comments))

\* update_notion, lines 415-423, called by main at line 469: the query of
\* the stored entries, which returns k of them.  update_notion is synchronous:
\* no task runs until it ends.  The record of the finished collection (the
\* responses and the finished tasks) is dropped here: from now on the run
\* depends on the stories alone.
Query(o, k) ==
    /\ pc = "returned"
    /\ IF o = "ok"
       THEN /\ kids' = [i \in 1..k |-> i]
            /\ pc' = IF k > 0 THEN "archive"
                     ELSE IF Len(stories) > 0 THEN "insert" ELSE "done"
            /\ UNCHANGED exc
       ELSE /\ Escape("Exception", "query")
            /\ UNCHANGED kids
    /\ resp' = [id \in StoryIds \cup CommentIds |-> "none"]
    /\ task' = [c \in CommentIds |-> IF task[c] = "done" THEN "none" ELSE task[c]]
    /\ res' = [c \in CommentIds |-> NoRes]
    /\ gexc' = [c \in CommentIds |-> NoRes]
    /\ order' = [p \in StoryIds \cup CommentIds |-> <<>>]
    /\ attempted' = <<>>
    /\ UNCHANGED <<number, listing, top_story_ids, stories, index, cur, spc,
                   archived, ai, n, created, htmlVars>>

\* update_notion, lines 424-425: one turn of the archive loop.
Archive(o) ==
    /\ pc = "archive"
    /\ IF o = "ok"
       THEN /\ archived' = archived \cup {kids[ai + 1]}
            /\ ai' = ai + 1
            /\ pc' = IF ai + 1 < Len(kids) THEN "archive"
                     ELSE IF Len(stories) > 0 THEN "insert" ELSE "done"
            /\ UNCHANGED exc
       ELSE /\ Escape("Exception", "archive")
            /\ UNCHANGED <<archived, ai>>
    /\ UNCHANGED <<srcVars, dlVars, taskVars, kids, n, created, htmlVars>>

\* A position counted from zero.
PositionFromZero(i) == i

\* "Position": {"number": position} with position = n + 1, lines 210, 430.
Position(i) == i + 1

\* update_notion, lines 428-439: one turn of the insert loop.  The
\* properties (count_comments among them) are built before the try, and the
\* try catches APIResponseError only: a request timeout of the client leaves
\* update_notion.
Insert(o) ==
    /\ pc = "insert"
    /\ LET story == stories[n + 1]
           cnt == count_comments(story)
       IN  IF cnt.exc # "none"
           THEN /\ Escape(cnt.exc, "properties")
                /\ UNCHANGED <<n, created>>
           ELSE /\ created' = Append(created,
                       [id |-> story.id, position |-> Position(n),
                        comments |-> cnt.value, outcome |-> o])
                /\ IF o = "timeout"
                   THEN /\ Escape("RequestTimeoutError", "create")
                        /\ UNCHANGED n
                   ELSE /\ n' = n + 1
                        /\ pc' = IF n + 1 < Len(stories) THEN "insert" ELSE "done"
                        /\ UNCHANGED exc
    /\ UNCHANGED <<srcVars, dlVars, taskVars, kids, archived, ai, htmlVars>>

\* --------------------------------------------------------------------- main
\* main, line 472: update_notion returned and "--loop" was not given (args.loop
\* is read here for the first time): main returns.
MainReturn ==
    /\ pc = "done"
    /\ pc' = "exit"
    /\ UNCHANGED <<srcVars, exc, dlVars, taskVars, sinkVars, htmlVars>>

\* main, lines 472-475: "--loop" was given: main enters "while True" and
\* awaits asyncio.sleep(10 * 60).
LoopSleep ==
    /\ pc = "done"
    /\ pc' = "sleeping"
    /\ UNCHANGED <<srcVars, exc, dlVars, taskVars, sinkVars, htmlVars>>

\* main, line 476: the sleep is over and download_stories() is called
\* without its required argument "number" (line 169): the call raises
\* TypeError before a request is sent, and nothing in main catches it.
LoopCall ==
    /\ pc = "sleeping"
    /\ Escape("TypeError", "rerun")
    /\ UNCHANGED <<srcVars, dlVars, taskVars, sinkVars, htmlVars>>

\* ---------------------------------------------------------------- the spec
Next ==
    \/ \E o \in ListingOutcomes : FetchListing(o)
    \/ LoopNext
    \/ LoopExit
    \/ \E o \in StoryOutcomes : StoryResponse(o)
    \/ \E c \in CommentIds, o \in CommentOutcomes : CommentResponse(c, o)
    \/ \E c \in CommentIds : CommentGather(c)
    \/ StoryGather
    \/ \E o \in QueryOutcomes, k \in 0..MaxPages : Query(o, k)
    \/ \E o \in ArchiveOutcomes : Archive(o)
    \/ \E o \in CreateOutcomes : Insert(o)
    \/ MainReturn
    \/ LoopSleep
    \/ LoopCall

Spec == Init /\ [][Next]_vars

\* One requested story, and a listing that ranks the story with replies.
InitOneTree ==
    /\ Init
    /\ number = 1
    /\ listing = <<1>>

\* Every request ends (in a response, an error or a timeout) and the event
\* loop runs every task that can run.
Fairness ==
    /\ WF_vars(\E o \in StoryOutcomes : StoryResponse(o))
    /\ WF_vars(StoryGather)
    /\ \A c \in CommentIds :
          /\ WF_vars(\E o \in CommentOutcomes : CommentResponse(c, o))
          /\ WF_vars(CommentGather(c))

FairSpec == InitOneTree /\ [][Next]_vars /\ Fairness

\* ------------------------------------------------------------------ strings
\* A string by its runs of equal characters, <<[ch |-> c, n |-> k], ...>>:
\* "x" is a character of the markup's text, "\n" a newline, "a" a character
\* of the author line.
Str(ch, k) == IF k = 0 THEN <<>> ELSE <<[ch |-> ch, n |-> k]>>

RECURSIVE StrLen(_)
StrLen(s) == IF s = <<>> THEN 0 ELSE s[1].n + StrLen(Tail(s))

\* s + t
Concat(s, t) ==
    IF s = <<>> THEN t
    ELSE IF t = <<>> THEN s
    ELSE IF s[Len(s)].ch = t[1].ch
    THEN SubSeq(s, 1, Len(s) - 1)
            \o <<[ch |-> t[1].ch, n |-> s[Len(s)].n + t[1].n]>> \o Tail(t)
    ELSE s \o t

\* s[:k]
RECURSIVE Slice(_,_)
Slice(s, k) ==
    IF s = <<>> \/ k <= 0 THEN <<>>
    ELSE IF s[1].n >= k THEN <<[ch |-> s[1].ch, n |-> k]>>
    ELSE <<s[1]>> \o Slice(Tail(s), k - s[1].n)

\* ------------------------------------------------------ richtexts_from_html
\* "tag.string[: (2000 - 2)]", line 232.
Limit == 2000
Margin == 2
\* "comment.text.getText()[:2000]", line 290.
FallbackLimit == 2000

\* The style dictionary: a key that is absent is FALSE or "none".
NoStyle == [italic |-> FALSE, bold |-> FALSE, code |-> FALSE,
            color |-> "none", url |-> "none"]
NoAnnotations == [bold |-> FALSE, italic |-> FALSE, code |-> FALSE, color |-> "none"]

\* Lines 251-262: what a tag of this name writes into the style.
Contribution(name, style) ==
    CASE name = "i" -> [style EXCEPT !.italic = TRUE]
      [] name = "b" -> [style EXCEPT !.bold = TRUE]
      [] name \in {"code", "pre"} -> [style EXCEPT !.code = TRUE]
      [] name = "a" -> [style EXCEPT !.url = "href", !.color = "blue"]
      [] OTHER -> style

\* A tag that starts from an empty style instead of the one it inherited.
TagStyleOnFresh(tag, style) == Contribution(tag.name, NoStyle)

\* Lines 222-225 and 251-262: the copy of the inherited style, with the
\* tag's contribution.
TagStyle(tag, style) == Contribution(tag.name, style)

\* Lines 227-248: the run of a NavigableString.
TextRun(tag, style) ==
    [content |-> Slice(Str("x", tag.len), Limit - Margin),
     annotations |-> [bold |-> style.bold, italic |-> style.italic,
                      code |-> style.code, color |-> style.color],
     link |-> style.url]

Runs(rs) == [exc |-> "none", runs |-> rs]
Fails(type) == [exc |-> type, runs |-> <<>>]

ParagraphBreak == Str("\n", 2)

\* A paragraph break that is a run of its own.
BreakAsOwnRun(rs) ==
    <<[content |-> ParagraphBreak, annotations |-> NoAnnotations, link |-> "none"]>> \o rs

\* Line 268, with at least one run: "\n\n" in front of the first content.
PrependBreak(rs) == [rs EXCEPT ![1].content = Concat(ParagraphBreak, @)]

\* richtexts_from_html, lines 220-273: the runs, or the exception raised:
\* KeyError by tag["href"] (line 260), IndexError by res[0] (line 268).
RECURSIVE richtexts_from_html(_,_)
RECURSIVE KidsRuns(_,_,_)
\* Lines 264-265: the loop over tag.contents, from the i-th kid on.
KidsRuns(contents, i, style) ==
    IF i > Len(contents) THEN Runs(<<>>)
    ELSE LET a == richtexts_from_html(contents[i], style)
         IN  IF a.exc # "none" THEN a
             ELSE LET b == KidsRuns(contents, i + 1, style)
                  IN  IF b.exc # "none" THEN b ELSE Runs(a.runs \o b.runs)
richtexts_from_html(tag, style) ==
    IF IsText(tag) THEN Runs(<<TextRun(tag, style)>>)
    ELSE IF tag.name = "a" /\ ~tag.href THEN Fails("KeyError")
    ELSE LET kr == KidsRuns(tag.contents, 1, TagStyle(tag, style))
         IN  IF kr.exc # "none" THEN kr
             ELSE IF tag.name # "p" THEN kr
             ELSE IF kr.runs = <<>> THEN Fails("IndexError")
             ELSE Runs(PrependBreak(kr.runs))

\* ------------------------------------------------------- block_from_comment
\* getText(): the strings of the tree, concatenated in document order.
RECURSIVE GetText(_)
RECURSIVE GetTextFrom(_,_)
GetTextFrom(contents, i) ==
    IF i > Len(contents) THEN <<>>
    ELSE Concat(GetText(contents[i]), GetTextFrom(contents, i + 1))
GetText(node) ==
    IF IsText(node) THEN Str("x", node.len) ELSE GetTextFrom(node.contents, 1)

\* A fallback run cut where the other runs are cut.
FallbackRunAtRunLimit(text) ==
    [content |-> Slice(GetText(text), Limit - Margin),
     annotations |-> NoAnnotations, link |-> "none"]

\* Lines 286-293: the run of the except branch; it has no annotations.
FallbackRun(text) ==
    [content |-> Slice(GetText(text), FallbackLimit),
     annotations |-> NoAnnotations, link |-> "none"]

\* Lines 296-318: "\nby " and comment.by (a name of two characters), gray.
AuthorRuns ==
    <<[content |-> Concat(Str("\n", 1), Str("a", 3)),
       annotations |-> [NoAnnotations EXCEPT !.color = "gray"], link |-> "none"],
      [content |-> Str("a", 2),
       annotations |-> [NoAnnotations EXCEPT !.color = "gray"], link |-> "user"]>>

\* block_from_comment, lines 276-326: the "text" of the block, and the
\* exception the try of line 280 caught.
block_from_comment(text) ==
    LET r == richtexts_from_html(text, NoStyle)
        body == IF r.exc # "none" THEN <<FallbackRun(text)>> ELSE r.runs
    IN  [state |-> "built", raised |-> r.exc, text |-> body \o AuthorRuns]

\* ------------------------------------------------------- the markup parser
MaxNodes == 4       \* most nodes of a markup tree, the document apart
\* Lengths of strings around the cut of line 232.
TextLens == {1, Limit - Margin - 1, Limit + 1}
TagNames == {"i", "b", "code", "pre", "a", "p", "span"}

RECURSIVE Size(_)
RECURSIVE SizeFrom(_,_)
SizeFrom(contents, i) ==
    IF i > Len(contents) THEN 0 ELSE Size(contents[i]) + SizeFrom(contents, i + 1)
\* The nodes of a tree, its root apart.
Size(node) == Len(node.contents) + SizeFrom(node.contents, 1)

\* The tree with one more kid under the innermost of the d open tags.
RECURSIVE AppendUnder(_,_,_)
AppendUnder(node, d, kid) ==
    IF d = 0
    THEN [node EXCEPT !.contents = Append(@, kid)]
    ELSE [node EXCEPT !.contents[Len(node.contents)] = AppendUnder(@, d - 1, kid)]

\* The innermost of the d open tags.
RECURSIVE InnerOpen(_,_)
InnerOpen(node, d) ==
    IF d = 0 THEN node ELSE InnerOpen(node.contents[Len(node.contents)], d - 1)

\* The parser is in the middle of character data: the last node it made is
\* a string under the innermost open tag.
InText ==
    LET cs == InnerOpen(html, open).contents
    IN  cs # <<>> /\ IsText(cs[Len(cs)])

HtmlInit ==
    /\ Init
    /\ number = 0
    /\ listing = <<>>

\* BeautifulSoup(data["text"], "html.parser"), line 103: a start tag opens a
\* Tag under the innermost open tag.
ParseStartTag(name, href) ==
    /\ block = NoBlock
    /\ Size(html) < MaxNodes
    /\ html' = AppendUnder(html, open, Tag(name, href, <<>>))
    /\ open' = open + 1
    /\ UNCHANGED <<srcVars, pc, exc, dlVars, taskVars, sinkVars, block>>

\* Line 103: the character data between two tags becomes one
\* NavigableString.
ParseText(len) ==
    /\ block = NoBlock
    /\ ~InText
    /\ Size(html) < MaxNodes
    /\ html' = AppendUnder(html, open, TextNode(len))
    /\ UNCHANGED <<srcVars, pc, exc, dlVars, taskVars, sinkVars, open, block>>

\* Line 103: an end tag closes the innermost open tag.
ParseEndTag ==
    /\ block = NoBlock
    /\ open > 0
    /\ open' = open - 1
    /\ UNCHANGED <<srcVars, pc, exc, dlVars, taskVars, sinkVars, html, block>>

\* block_from_comment(comment), lines 276-326, for comment.text = html: the
\* markup ended (the parser closed the tags left open).
BlockFromComment ==
    /\ block = NoBlock
    /\ block' = block_from_comment(html)
    /\ open' = 0
    /\ UNCHANGED <<srcVars, pc, exc, dlVars, taskVars, sinkVars, html>>

HtmlNext ==
    \/ \E name \in TagNames : ParseStartTag(name, name = "a")
    \/ ParseStartTag("a", FALSE)
    \/ \E len \in TextLens : ParseText(len)
    \/ ParseEndTag
    \/ BlockFromComment

HtmlSpec == HtmlInit /\ [][HtmlNext]_vars

\* ---------------------------------------------------------------- trees
\* Every element of the reply tree of item, at every depth.
RECURSIVE Elems(_)
Elems(item) ==
    UNION {{item.comments[i]} \cup Elems(item.comments[i]) : i \in 1..Len(item.comments)}

IsReply(e) == e.kind = "Comment"
Replies(item) == {e \in Elems(item) : IsReply(e)}
ReplyIds(item) == {e.id : e \in Replies(item)}

\* The identifiers of the Replies attached to item, in the order attached.
ChildIds(item) ==
    LET cs == SelectSeq(item.comments, IsReply)
    IN  [i \in 1..Len(cs) |-> cs[i].id]

\* The source's tree below an item, the item included.
RECURSIVE Subtree(_)
Subtree(id) == {id} \cup UNION {Subtree(KidsOf(id)[i]) : i \in 1..Len(KidsOf(id))}

\* The replies above a reply in the source's tree.
RECURSIVE ReplyAncestors(_)
ReplyAncestors(c) ==
    IF ParentOf(c) \in CommentIds
    THEN {ParentOf(c)} \cup ReplyAncestors(ParentOf(c))
    ELSE {}

StoryIdsOf(ss) == [i \in 1..Len(ss) |-> ss[i].id]

\* --------------------------------------------------------------- C1
\* C1: pruning is branch-local.  For every collected thread and every reply
\* of its source tree whose record is null or deleted, the thread holds
\* neither that reply nor its descendants, and holds every reply outside that
\* subtree whose own fetch and whose ancestors' fetches succeeded.
C1_PruningBranchLocal ==
    \A i \in 1..Len(stories) :
        LET s == stories[i]
            tree == Subtree(s.id) \ {s.id}
        IN  \A c \in tree :
                resp[c] = "absent" =>
                    /\ Subtree(c) \cap ReplyIds(s) = {}
                    /\ \A m \in tree \ Subtree(c) :
                          (resp[m] = "ok" /\ \A a \in ReplyAncestors(m) : resp[a] = "ok")
                              => m \in ReplyIds(s)

\* --------------------------------------------------------------- C2
\* C2: every element of a collected thread's reply tree, at every depth, is
\* a Reply: never an error object.
C2_OnlyReplies ==
    \A i \in 1..Len(stories) : \A e \in Elems(stories[i]) : IsReply(e)

\* --------------------------------------------------------------- C3
\* The Replies attached to item are in the order of the source record's kids.
InSourceOrder(item) ==
    LET ids == ChildIds(item)
        Survives(k) == k \in Range(ids)
    IN  ids = SelectSeq(KidsOf(item.id), Survives)

\* C3: whatever the order in which the kids' tasks finish, the surviving
\* children of every node (a collected story, a reply inside it, a Comment a
\* task returned) are in the relative order of the record's kids.
C3_SiblingOrder ==
    /\ \A i \in 1..Len(stories) :
          /\ InSourceOrder(stories[i])
          /\ \A e \in Replies(stories[i]) : InSourceOrder(e)
    /\ \A c \in CommentIds : IsReply(res[c]) => InSourceOrder(res[c])

\* A story was collected whose two replies, and the two replies of its first
\* reply, all survived although each pair finished in the reverse order.
C3_Witness ==
    \E i \in 1..Len(stories) :
        /\ stories[i].id = 1
        /\ ChildIds(stories[i]) = <<11, 12>>
        /\ order[1] = <<12, 11>>
        /\ ChildIds(stories[i].comments[1]) = <<13, 14>>
        /\ order[11] = <<14, 13>>

\* --------------------------------------------------------------- C4
\* C4: count_comments of every collected thread is exactly the number of
\* Replies in its reply tree.
C4_CountIsReplies ==
    \A i \in 1..Len(stories) :
        count_comments(stories[i]) = Returned(Cardinality(Replies(stories[i])))

\* --------------------------------------------------------------- C5
\* C5: download_stories returns at most number threads, each with a
\* non-empty target URL.
C5_AtMostCountWithUrl ==
    pc = "returned" =>
        /\ Len(stories) <= number
        /\ \A i \in 1..Len(stories) : stories[i].url # ""

\* --------------------------------------------------------------- C6
\* C6: when the listing is exhausted with fewer than number threads
\* collected, download_stories does not fail: it returns what it has.
C6_ExhaustedListingReturns ==
    (index = Len(top_story_ids) /\ Len(stories) < number)
        => ~(pc = "raised" /\ exc.from = "loop")

\* --------------------------------------------------------------- C7
\* C7: no failure of one candidate root escapes download_stories.
C7_RootFailureConfined ==
    ~(pc = "raised" /\ exc.from = "root")

\* --------------------------------------------------------------- C8
\* The root request of id ended in a Story.
Succeeded(id) == resp[id] \in {"ok", "emptyurl"}

\* C8: what download_stories returns are the first number identifiers of the
\* listing whose root resolution succeeds, in rank order: the listing was
\* walked front to back, each candidate requested once, no success among the
\* walked candidates left out, and the walk stopped at the last one returned.
C8_FirstSuccessesInRankOrder ==
    pc = "returned" =>
        /\ top_story_ids = listing
        /\ attempted = SubSeq(listing, 1, index)
        /\ StoryIdsOf(stories) = SelectSeq(attempted, Succeeded)
        /\ Len(stories) = number
        /\ number > 0 => Succeeded(attempted[Len(attempted)])

\* download_stories returned the thread ranked second, having skipped the
\* candidate ranked first, whose root request failed.
C8_Witness ==
    /\ pc = "returned"
    /\ Len(stories) = 1
    /\ index = 2
    /\ ~Succeeded(listing[1])

\* --------------------------------------------------------------- C9
\* C9: every entry the query returned is archived before the first insert,
\* and the k-th insert is that of the k-th collected thread, at position k.
C9_ArchiveThenInsertInRank ==
    /\ created # <<>> => Range(kids) \subseteq archived
    /\ \A k \in 1..Len(created) :
          /\ created[k].id = stories[k].id
          /\ created[k].position = k

\* Two stored entries were archived and two threads inserted.
C9_Witness ==
    /\ Len(kids) = 2
    /\ Len(created) = 2
    /\ pc = "done"

\* --------------------------------------------------------------- C10
\* C10: once the insert loop is over, however it ended, update_notion has
\* returned normally and every collected thread had its insert attempted.
C10_InsertFailureConfined ==
    (pc = "done" \/ (pc = "raised" /\ exc.from \in {"properties", "create"}))
        => (pc = "done" /\ Len(created) = Len(stories))

\* --------------------------------------------------------------- C11
\* main took the "--loop" branch of line 472.
IntervalMode == pc = "sleeping" \/ exc.from = "rerun"

\* C11: in interval mode the cycle goes on: after a run the driver sleeps
\* and starts another run of download_stories; main never ends there with
\* an exception.
C11_IntervalRepeats ==
    IntervalMode => pc # "raised"

\* ----------------------------------------------------- strings of a tree
\* The strings of a tree in document order, each with the names of the tags
\* above it and the number of paragraphs of which it is the first string.
RECURSIVE Leaves(_,_)
RECURSIVE LeavesFrom(_,_,_)
LeavesFrom(contents, i, above) ==
    IF i > Len(contents) THEN <<>>
    ELSE Leaves(contents[i], above) \o LeavesFrom(contents, i + 1, above)
Leaves(node, above) ==
    IF IsText(node) THEN <<[len |-> node.len, above |-> above, breaks |-> 0]>>
    ELSE LET ls == LeavesFrom(node.contents, 1, above \cup {node.name})
         IN  IF node.name = "p" /\ ls # <<>>
             THEN [ls EXCEPT ![1].breaks = @ + 1]
             ELSE ls

RECURSIVE TotalLen(_)
TotalLen(ls) == IF ls = <<>> THEN 0 ELSE ls[1].len + TotalLen(Tail(ls))

Min(a, b) == IF a < b THEN a ELSE b

\* The runs of the reply's body: those before the two of the author line.
Body == SubSeq(block.text, 1, Len(block.text) - Len(AuthorRuns))

\* The characters of the markup's text in a content.
RECURSIVE XLen(_)
XLen(s) ==
    IF s = <<>> THEN 0
    ELSE (IF s[1].ch = "x" THEN s[1].n ELSE 0) + XLen(Tail(s))

\* --------------------------------------------------------------- C12
\* C12: every run of a reply's body has a content of at most 2000 - 2
\* characters, the runs with a paragraph break in front and the fallback run
\* included, and no string of the markup is split over several runs.
C12_RunWithinCeiling ==
    block.state = "built" =>
        /\ \A k \in 1..Len(Body) : StrLen(Body[k].content) <= Limit - Margin
        /\ Len(Body) = IF block.raised # "none" THEN 1 ELSE Len(Leaves(html, {}))

StyleOf(above) ==
    [annotations |-> [bold |-> "b" \in above, italic |-> "i" \in above,
                      code |-> above \cap {"code", "pre"} # {},
                      color |-> IF "a" \in above THEN "blue" ELSE "none"],
     link |-> IF "a" \in above THEN "href" ELSE "none"]

\* C14: when the conversion returns, there is one run for each string of the
\* markup, in document order, and the style of a run is the union of what
\* the tags above its string contribute: no more, no less.
C14_StyleComposition ==
    (block.state = "built" /\ block.raised = "none") =>
        LET ls == Leaves(html, {})
        IN  /\ Len(Body) = Len(ls)
            /\ \A k \in 1..Len(ls) :
                  /\ XLen(Body[k].content) = Min(ls[k].len, Limit - Margin)
                  /\ Body[k].annotations = StyleOf(ls[k].above).annotations
                  /\ Body[k].link = StyleOf(ls[k].above).link

\* A string in a bold tag in a link, then a string after the link: the first
\* run is bold, blue and linked, the second has no style.
C14_Witness ==
    /\ block.state = "built"
    /\ block.raised = "none"
    /\ Len(Body) = 2
    /\ Body[1].annotations = [NoAnnotations EXCEPT !.bold = TRUE, !.color = "blue"]
    /\ Body[1].link = "href"
    /\ Body[2].annotations = NoAnnotations
    /\ Body[2].link = "none"

\* --------------------------------------------------------------- C15
\* C15: when the conversion returns, a paragraph adds no run: there is one
\* run for each string, and the content of a run is the string (cut) with
\* "\n\n" in front once for each paragraph of which it is the first string.
C15_BreakOnFirstRun ==
    (block.state = "built" /\ block.raised = "none") =>
        LET ls == Leaves(html, {})
        IN  /\ Len(Body) = Len(ls)
            /\ \A k \in 1..Len(ls) :
                  Body[k].content =
                      Concat(Str("\n", 2 * ls[k].breaks),
                             Slice(Str("x", ls[k].len), Limit - Margin))

\* "<p>a</p><p>b</p>" was converted: two runs, each with the break in front.
C15_Witness ==
    /\ block.state = "built"
    /\ html = Document(<<Tag("p", FALSE, <<TextNode(1)>>), Tag("p", FALSE, <<TextNode(1)>>)>>)
    /\ Len(Body) = 2
    /\ Body[1].content = Concat(ParagraphBreak, Str("x", 1))
    /\ Body[2].content = Concat(ParagraphBreak, Str("x", 1))

\* --------------------------------------------------------------- C16
\* A request or a task of the tree of a reply is in flight.
InFlight(c) == task[c] \in {"get", "gather"}

\* C16: roots are resolved one at a time.  When the request of the next
\* candidate root is issued, and when download_stories returns, no task of
\* the tree of a root attempted before is in flight.
C16_OneRootAtATime ==
    ((pc = "await_story" /\ spc = "get") \/ pc = "returned")
        => \A c \in CommentIds : ~InFlight(c)

\* --------------------------------------------------------------- C17
\* C17: join-all.  The resolution of a reply with kids, and of a story with
\* kids, is over only when every task launched for its kids is over.
C17_JoinAll ==
    /\ \A c \in CommentIds :
          task[c] = "done" => \A k \in Range(KidsOf(c)) : ~InFlight(k)
    /\ (pc \in {"loop", "returned"} /\ cur # 0)
          => \A k \in Range(KidsOf(cur)) : ~InFlight(k)

\* --------------------------------------------------------------- C18
\* C18: every call of download_story ends: main does not stay suspended in
\* "await download_story(...)" forever.
C18_StoryTerminates ==
    (pc = "await_story") ~> (pc # "await_story")

\* download_story returned the story with replies although the request of a
\* reply of its first reply failed.
C18_Witness ==
    /\ pc = "loop"
    /\ Len(stories) = 1
    /\ stories[1].id = 1
    /\ res[13].kind = "DownloadExcpetion"
    /\ task[14] = "done"

\* --------------------------------------------------------------- C19
\* An entry was archived or a page created.
SinkTouched == archived # {} \/ created # <<>>

\* download_stories returned to main (line 468) and did not raise.
CollectionReturned ==
    /\ pc \in {"returned", "archive", "insert", "done", "exit", "sleeping", "raised"}
    /\ exc.from \notin {"listing", "loop", "root"}

\* C19: the sink is touched only after download_stories returned; when it
\* raised, no entry is archived and no page created.
C19_SinkAfterCollection ==
    SinkTouched => CollectionReturned

\* The collection loop was left by an exception after a story had been
\* collected, and the sink was left alone.
C19_Witness ==
    /\ pc = "raised"
    /\ exc.from = "root"
    /\ Len(stories) = 1
    /\ ~SinkTouched

=============================================================================
